---- MODULE Spec2Model ----
(***************************************************************************)
(* Model of presentation_mode: the display catalog parser and mode         *)
(* selector (display.py), the enter/exit orchestrator (cli.py), the        *)
(* menu-bar toggle (menubar.py) and the window enumerator and tiler        *)
(* (windows.py).                                                           *)
(*                                                                         *)
(* Three specifications share the variables:                               *)
(*   Spec         calls of enter, exit_mode, set_presentation_resolution   *)
(*                and set_normal_resolution against a display catalog;     *)
(*   SpecDisplay  get_available_modes and find_presentation_mode over      *)
(*                bounded catalogs, serials and target widths;             *)
(*   SpecTile     tile_windows_on_display over bounded window lists.       *)
(***************************************************************************)
EXTENDS Integers, Sequences, FiniteSets, TLC

VARIABLES
    \* ---- Spec: orchestrator and resolution steps ----
    cmd,        \* the function the caller invoked, "none" when idle
    pc,         \* position inside the invoked function
    info,       \* text of `displayplacer list` during this call (sequence of lines)
    menubarOK,  \* whether osascript will exit 0 in this call
    applierOK,  \* whether `displayplacer id:.. mode:..` will exit 0 in this call
    stateFile,  \* ~/.presentation-mode-state.json: "absent", "corrupt" or "mode"
    saved_mode, \* exit_mode's local saved_mode
    switchRet,  \* value returned by set_*_resolution(), None before it returns
    ret,        \* value returned by the invoked function ("0", "1", "True", "False"),
                \* None if it has not returned
    raised,     \* exception that left the invoked function, None if none
    trace,      \* the calls made during this call, in order
    applied,    \* set_mode invocations of this call: <<serial, mode id>>
    curMode,    \* display state: last <<serial, mode id>> applied successfully
    modeAtCall, \* curMode when the call started
    log,        \* summaries of the completed calls, in order
    \* ---- SpecDisplay: parser and selector ----
    dpc,        \* position: "start", "parsed", "selected"
    dinfo,      \* text of `displayplacer list`
    dserial,    \* the serial asked for (its digits)
    dtarget,    \* the target width
    dmodes,     \* the lines of dinfo whose modes get_available_modes returned
    dbest,      \* position in the parsed modes of the mode selected, or NoIndex
    \* ---- SpecTile: enumerator and tiler ----
    tpc,            \* position inside tile_windows_on_display
    window_list,    \* what CGWindowListCopyWindowInfo returns
    bounds,         \* the arguments <<display_x, display_y, display_width, display_height>>
    windows,        \* the local windows: the result of get_windows_on_display
    ti,             \* position of the for loop in windows
    pids_processed,
    resized_count,
    invocations     \* the calls of resize_all_app_windows_ax made, in order

runVars == <<cmd, pc, info, menubarOK, applierOK, stateFile, saved_mode, switchRet,
             ret, raised, trace, applied, curMode, modeAtCall, log>>
dispVars == <<dpc, dinfo, dserial, dtarget, dmodes, dbest>>
tileVars == <<tpc, window_list, bounds, windows, ti, pids_processed, resized_count,
              invocations>>
vars == <<runVars, dispVars, tileVars>>

\* Python's None, True and False where a variable holds one of the three, and
\* the absent value of each other type.
None == "None"
Py(b) == IF b THEN "True" ELSE "False"
NoSerial == <<>>      \* no serial: the pattern s\d+ never matches an empty one
NoMode == [id |-> -1, width |-> 0, height |-> 0, hz |-> 0, scaled |-> FALSE]
NoIndex == 0          \* no position in a sequence
NoDisplayMode == <<>> \* no mode applied yet

\* ------------------------------------------------------------------------
\* Bounds of the model
\* ------------------------------------------------------------------------
MaxRuns == 2        \* calls per behaviour of Spec
MaxLen == 3         \* mode lines of a single-display catalog (SpecDisplay)
MaxPair == 1        \* mode lines per display of a two-display catalog (SpecDisplay)
MaxWindows == 3     \* entries of the live window list (SpecTile)
MaxAx == 2          \* windows an application reports through AXWindows (SpecTile)

\* ------------------------------------------------------------------------
\* The text of `displayplacer list`, one record per line.  Only what the
\* patterns of display.py look at is kept of a line:
\*   persistent  "Persistent screen id: <UUID>"
\*   serial      "Serial screen id: s<digits>"      (serial = the digits)
\*   origin      "Origin: (x,y)" [" - main display"]
\*   mode        "  mode <id>: res:<w>x<h> hz:<hz> color_depth:8" [" scaling:on"]
\*   other       any other line ("Type: ...", "Resolutions for rotation 0:", ...)
\* ------------------------------------------------------------------------
PersistentLine == [kind |-> "persistent"]
SerialLine(s) == [kind |-> "serial", serial |-> s]
OriginLine(m) == [kind |-> "origin", main |-> m]
OtherLine == [kind |-> "other"]
ModeLine(i, w, h, sc) ==
    [kind |-> "mode", id |-> i, width |-> w, height |-> h, hz |-> 60, scaled |-> sc]

IsPrefix(a, b) == Len(a) <= Len(b) /\ SubSeq(b, 1, Len(a)) = a

\* `serial in line` for serial = "s" + digits: a substring test.  The only
\* place of the listing where "s" is followed by a digit is the serial line,
\* so the test holds exactly when the digits are a prefix of that line's.
SerialInLine(serial, line) ==
    line.kind = "serial" /\ IsPrefix(serial, line.serial)

\* line.startswith("Persistent screen id:")
StartsWithPersistent(line) == line.kind = "persistent"

\* re.search(r'mode (\d+): res:(\d+)x(\d+) hz:(\d+)', line)
MatchesMode(line) == line.kind = "mode"

\* "Serial screen id:" in line, and re.search(r'Serial screen id: (s\d+)', line)
MatchesSerial(line) == line.kind = "serial"

\* "main display" in line.lower()
HasMainDisplay(line) == line.kind = "origin" /\ line.main

\* The dict built from a mode line (display.py 69-75).
ModeDict(line) ==
    [id |-> line.id, width |-> line.width, height |-> line.height,
     hz |-> line.hz, scaled |-> line.scaled]

\* ------------------------------------------------------------------------
\* display.py
\* ------------------------------------------------------------------------
RECURSIVE MainSerialFrom(_, _, _)
MainSerialFrom(text, i, current_serial) ==
    IF i > Len(text) THEN NoSerial
    ELSE IF MatchesSerial(text[i]) THEN MainSerialFrom(text, i + 1, text[i].serial)
    ELSE IF HasMainDisplay(text[i]) /\ current_serial # NoSerial THEN current_serial
    ELSE MainSerialFrom(text, i + 1, current_serial)

get_main_display_serial(text) == MainSerialFrom(text, 1, NoSerial)

\* The loop of get_available_modes: the indices of the lines whose modes are
\* appended, in order.
RECURSIVE ModeLinesFrom(_, _, _, _)
ModeLinesFrom(text, serial, i, in_target_display) ==
    IF i > Len(text) THEN <<>>
    ELSE IF SerialInLine(serial, text[i]) THEN ModeLinesFrom(text, serial, i + 1, TRUE)
    ELSE IF in_target_display
         THEN IF StartsWithPersistent(text[i]) THEN <<>>
              ELSE IF MatchesMode(text[i])
                   THEN <<i>> \o ModeLinesFrom(text, serial, i + 1, TRUE)
                   ELSE ModeLinesFrom(text, serial, i + 1, TRUE)
         ELSE ModeLinesFrom(text, serial, i + 1, FALSE)

mode_lines(text, serial) == ModeLinesFrom(text, serial, 1, FALSE)

get_available_modes(text, serial) ==
    LET idx == mode_lines(text, serial)
    IN  [k \in 1..Len(idx) |-> ModeDict(text[idx[k]])]

Abs(n) == IF n < 0 THEN -n ELSE n

\* Faulty variant of MinIndexFrom (sensitivity of C8): on equal distance the
\* later mode wins.
RECURSIVE MinIndexFromLast(_, _, _, _)
MinIndexFromLast(seq, target, i, best) ==
    IF i > Len(seq) THEN best
    ELSE IF Abs(seq[i].width - target) <= Abs(seq[best].width - target)
         THEN MinIndexFromLast(seq, target, i + 1, i)
         ELSE MinIndexFromLast(seq, target, i + 1, best)

\* min(seq, key): the first element with the smallest key.
RECURSIVE MinIndexFrom(_, _, _, _)
MinIndexFrom(seq, target, i, best) ==
    IF i > Len(seq) THEN best
    ELSE IF Abs(seq[i].width - target) < Abs(seq[best].width - target)
         THEN MinIndexFrom(seq, target, i + 1, i)
         ELSE MinIndexFrom(seq, target, i + 1, best)

ScaledIndices(modes) ==
    LET F[i \in 0..Len(modes)] ==
            IF i = 0 THEN <<>>
            ELSE IF modes[i].scaled THEN Append(F[i - 1], i) ELSE F[i - 1]
    IN  F[Len(modes)]

\* find_presentation_mode after its call of get_available_modes: the position
\* in modes of the mode returned, NoIndex when None is.
select_presentation_mode(modes, target) ==
    LET scaled == ScaledIndices(modes)
        scaled_modes == [k \in 1..Len(scaled) |-> modes[scaled[k]]]
    IN  IF Len(scaled) = 0 THEN NoIndex
        ELSE scaled[MinIndexFrom(scaled_modes, target, 2, 1)]

\* display.py imports these three names from config.py, which does not define
\* them.  The values are those of the docstring of set_normal_resolution
\* ("normal resolution (2560x1440)") and of the "presentation" widths of the
\* DISPLAYS table of config.py.
PRESENTATION_TARGET_WIDTH == 1280
NORMAL_WIDTH == 2560
NORMAL_HEIGHT == 1440

find_presentation_mode(text, serial) ==
    LET modes == get_available_modes(text, serial)
        k == select_presentation_mode(modes, PRESENTATION_TARGET_WIDTH)
    IN  IF k = NoIndex THEN NoMode ELSE modes[k]

RECURSIVE FirstMatchFrom(_, _, _, _)
FirstMatchFrom(modes, width, height, i) ==
    IF i > Len(modes) THEN NoMode
    ELSE IF modes[i].width = width /\ modes[i].height = height /\ modes[i].scaled
         THEN modes[i]
         ELSE FirstMatchFrom(modes, width, height, i + 1)

find_mode_for_resolution(text, serial, width, height) ==
    FirstMatchFrom(get_available_modes(text, serial), width, height, 1)

\* Faulty variant of set_presentation_resolution (sensitivity of C6): with no
\* scaled mode it falls back to
\* the first mode of the display instead of returning False.
set_presentation_resolution_fallback(text, ok) ==
    LET serial == get_main_display_serial(text)
    IN  IF serial = NoSerial THEN [ret |-> FALSE, calls |-> <<>>]
        ELSE LET modes == get_available_modes(text, serial)
                 mode == find_presentation_mode(text, serial)
             IN  IF mode = NoMode /\ Len(modes) = 0 THEN [ret |-> FALSE, calls |-> <<>>]
                 ELSE IF mode = NoMode
                      THEN [ret |-> ok, calls |-> << <<serial, modes[1].id>> >>]
                      ELSE [ret |-> ok, calls |-> << <<serial, mode.id>> >>]

\* set_presentation_resolution(): the value returned and the set_mode calls
\* made, ok being the exit status of the applier.
set_presentation_resolution(text, ok) ==
    LET serial == get_main_display_serial(text)
    IN  IF serial = NoSerial THEN [ret |-> FALSE, calls |-> <<>>]
        ELSE LET mode == find_presentation_mode(text, serial)
             IN  IF mode = NoMode THEN [ret |-> FALSE, calls |-> <<>>]
                 ELSE [ret |-> ok, calls |-> << <<serial, mode.id>> >>]

\* set_normal_resolution()
set_normal_resolution(text, ok) ==
    LET serial == get_main_display_serial(text)
    IN  IF serial = NoSerial THEN [ret |-> FALSE, calls |-> <<>>]
        ELSE LET mode == find_mode_for_resolution(text, serial, NORMAL_WIDTH, NORMAL_HEIGHT)
             IN  IF mode = NoMode THEN [ret |-> FALSE, calls |-> <<>>]
                 ELSE [ret |-> ok, calls |-> << <<serial, mode.id>> >>]


\* ------------------------------------------------------------------------
\* Catalogs
\* ------------------------------------------------------------------------
Shape(w, h, sc) == [width |-> w, height |-> h, scaled |-> sc]
S800 == Shape(800, 500, TRUE)
S1280 == Shape(1280, 720, TRUE)
S1320 == Shape(1320, 742, TRUE)
U1920 == Shape(1920, 1080, FALSE)
S2560 == Shape(2560, 1440, TRUE)
U1300 == Shape(1300, 731, FALSE)
Shapes == {S800, S1280, S1320, U1300, S2560}
PairShapes == {S1280, U1920}
Serials == {<<4, 2>>, <<4, 2, 5>>, <<5, 3>>}
Targets == {1280, 1300}

\* The mode lines of one display: displayplacer numbers them from 0.
ModeLinesOf(shapes) ==
    [k \in 1..Len(shapes) |->
        ModeLine(k - 1, shapes[k].width, shapes[k].height, shapes[k].scaled)]

\* One display's section of the listing.
Section(serial, main, shapes) ==
    <<PersistentLine, SerialLine(serial), OriginLine(main), OtherLine>>
        \o ModeLinesOf(shapes)

SeqsUpTo(S, n) == UNION {[1..k -> S] : k \in 0..n}

\* The listings the calls of Spec run against: no display; one display that
\* is or is not the main one; two displays with the second the main one.
RunCatalogs ==
    { <<>>,
      Section(<<4, 2>>, TRUE, <<>>),
      Section(<<4, 2>>, TRUE, <<U1920>>),
      Section(<<4, 2>>, TRUE, <<S2560, S1280>>),
      Section(<<4, 2>>, FALSE, <<S1280>>),
      Section(<<5, 3>>, FALSE, <<S2560>>) \o Section(<<4, 2>>, TRUE, <<S1280>>) }

\* ------------------------------------------------------------------------
\* cli.py and menubar.py
\* ------------------------------------------------------------------------
\* What the state file can hold: nothing, the JSON of a mode, or text that
\* json.loads rejects.
StateFiles == {"absent", "corrupt", "mode"}

\* load_state(): None when the file is absent or unreadable.
load_state(file) == IF file = "absent" \/ file = "corrupt" THEN None ELSE file

\* `success, original_mode = v`: a bool is not iterable.
Unpack2(v) == IF v \in {"True", "False"} THEN "TypeError" ELSE v

\* Binding nargs positional arguments to a function of nparams parameters.
BindArgs(nparams, nargs) == IF nargs = nparams THEN "ok" ELSE "TypeError"

Commands == {"enter", "exit", "set_presentation_resolution", "set_normal_resolution"}

\* A call starts: the caller picks the function, the environment the listing.
Invoke ==
    /\ pc = "idle"
    /\ Len(log) < MaxRuns
    /\ \E c \in Commands, text \in RunCatalogs :
        /\ cmd' = c
        /\ info' = text
        /\ pc' = IF c \in {"enter", "exit"} THEN "menubar" ELSE "switch"
    /\ menubarOK' = None
    /\ applierOK' = None
    /\ saved_mode' = None
    /\ switchRet' = None
    /\ ret' = None
    /\ raised' = None
    /\ trace' = <<>>
    /\ applied' = <<>>
    /\ modeAtCall' = curMode
    /\ UNCHANGED <<stateFile, curMode, log>>

\* Faulty variant of HideMenubar (sensitivity of C7): a failed toggle ends the
\* call with status 1.
HideMenubarFatal ==
    /\ cmd = "enter" /\ pc = "menubar"
    /\ \E ok \in BOOLEAN :
        /\ menubarOK' = Py(ok)
        /\ pc' = IF ok THEN "switch" ELSE "done"
        /\ ret' = IF ok THEN ret ELSE "1"
    /\ trace' = Append(trace, "hide_menubar")
    /\ UNCHANGED <<cmd, info, applierOK, stateFile, saved_mode, switchRet, raised,
                   applied, curMode, modeAtCall, log>>

\* enter, step 1: hide_menubar() == set_menubar_autohide(True); a failure
\* only prints a warning.
HideMenubar ==
    /\ cmd = "enter" /\ pc = "menubar"
    /\ \E ok \in BOOLEAN : menubarOK' = Py(ok)
    /\ trace' = Append(trace, "hide_menubar")
    /\ pc' = "switch"
    /\ UNCHANGED <<cmd, info, applierOK, stateFile, saved_mode, switchRet, ret, raised,
                   applied, curMode, modeAtCall, log>>

\* exit_mode, step 1: show_menubar() == set_menubar_autohide(False).
ShowMenubar ==
    /\ cmd = "exit" /\ pc = "menubar"
    /\ \E ok \in BOOLEAN : menubarOK' = Py(ok)
    /\ trace' = Append(trace, "show_menubar")
    /\ pc' = "load_state"
    /\ UNCHANGED <<cmd, info, applierOK, stateFile, saved_mode, switchRet, ret, raised,
                   applied, curMode, modeAtCall, log>>

\* exit_mode: saved_mode = load_state()
LoadState ==
    /\ cmd = "exit" /\ pc = "load_state"
    /\ saved_mode' = load_state(stateFile)
    /\ trace' = Append(trace, "load_state")
    /\ pc' = "switch"
    /\ UNCHANGED <<cmd, info, menubarOK, applierOK, stateFile, switchRet, ret, raised,
                   applied, curMode, modeAtCall, log>>

\* The effects of a resolution step r on the display, ok being the applier's
\* exit status: set_mode changes the mode only when the applier succeeds.
ApplyStep(called, r, ok) ==
    /\ switchRet' = Py(r.ret)
    /\ applied' = applied \o r.calls
    /\ applierOK' = IF r.calls = <<>> THEN applierOK ELSE Py(ok)
    /\ trace' = trace \o called \o (IF r.calls = <<>> THEN <<>> ELSE <<"set_mode">>)
    /\ curMode' = IF r.calls # <<>> /\ ok THEN r.calls[1] ELSE curMode

\* The body of set_presentation_resolution(), called by enter (cli.py 68) or
\* directly.
SetPresentationResolution ==
    /\ cmd \in {"enter", "set_presentation_resolution"} /\ pc = "switch"
    /\ \E ok \in BOOLEAN : ApplyStep(<<"set_presentation_resolution">>,
                                   set_presentation_resolution(info, ok), ok)
    /\ pc' = IF cmd = "enter" THEN "unpack" ELSE "return"
    /\ UNCHANGED <<cmd, info, menubarOK, stateFile, saved_mode, ret, raised,
                   modeAtCall, log>>

\* enter, cli.py 68-75: the value returned is unpacked into
\* (success, original_mode).  set_presentation_resolution returns a bool, so
\* the unpacking raises TypeError and lines 69-91 are never reached.
EnterUnpack ==
    /\ cmd = "enter" /\ pc = "unpack"
    /\ LET u == Unpack2(switchRet)
       IN  IF u = "TypeError"
           THEN /\ raised' = "TypeError" /\ ret' = ret /\ pc' = "done"
                /\ stateFile' = stateFile
           ELSE IF u[1] # "True"
                THEN /\ ret' = "1" /\ raised' = raised /\ pc' = "done"
                     /\ stateFile' = stateFile
                ELSE /\ stateFile' = IF u[2] # None THEN u[2] ELSE stateFile
                     /\ ret' = ret /\ raised' = raised /\ pc' = "settle"
    /\ UNCHANGED <<cmd, info, menubarOK, applierOK, saved_mode, switchRet, trace,
                   applied, curMode, modeAtCall, log>>

\* exit_mode, cli.py 116: set_normal_resolution(saved_mode) passes one
\* argument to a function that takes none, so the call raises TypeError
\* before the body runs and lines 117-137 are never reached.
ExitCall ==
    /\ cmd = "exit" /\ pc = "switch"
    /\ trace' = Append(trace, "set_normal_resolution")
    /\ IF BindArgs(0, 1) = "TypeError"
       THEN raised' = "TypeError" /\ pc' = "done"
       ELSE raised' = raised /\ pc' = "normal"
    /\ UNCHANGED <<cmd, info, menubarOK, applierOK, stateFile, saved_mode, switchRet,
                   ret, applied, curMode, modeAtCall, log>>

\* The body of set_normal_resolution(), called directly.
SetNormalResolution ==
    /\ \/ cmd = "set_normal_resolution" /\ pc = "switch"
       \/ cmd = "exit" /\ pc = "normal"
    /\ \E ok \in BOOLEAN : ApplyStep(IF cmd = "exit" THEN <<>> ELSE <<"set_normal_resolution">>,
                                   set_normal_resolution(info, ok), ok)
    /\ pc' = "return"
    /\ UNCHANGED <<cmd, info, menubarOK, stateFile, saved_mode, ret, raised,
                   modeAtCall, log>>

\* A resolution step called directly returns its bool to the caller.
Return ==
    /\ cmd \in {"set_presentation_resolution", "set_normal_resolution"}
    /\ pc = "return"
    /\ ret' = switchRet
    /\ pc' = "done"
    /\ UNCHANGED <<cmd, info, menubarOK, applierOK, stateFile, saved_mode, switchRet,
                   raised, trace, applied, curMode, modeAtCall, log>>

\* What is kept of a completed call.
Summary ==
    [cmd |-> cmd, info |-> info, file |-> stateFile, menubarOK |-> menubarOK,
     applierOK |-> applierOK, switchRet |-> switchRet, ret |-> ret,
     raised |-> raised, trace |-> trace]

\* The call is over (returned or raised); the next one may start.
Finish ==
    /\ pc = "done"
    /\ log' = Append(log, Summary)
    /\ cmd' = "none"
    /\ pc' = "idle"
    /\ UNCHANGED <<info, menubarOK, applierOK, stateFile, saved_mode, switchRet, ret,
                   raised, trace, applied, curMode, modeAtCall>>

DispIdle ==
    /\ dpc = "off" /\ dinfo = <<>> /\ dserial = <<>> /\ dtarget = 0
    /\ dmodes = <<>> /\ dbest = NoIndex

TileIdle ==
    /\ tpc = "off" /\ window_list = <<>> /\ bounds = <<0, 0, 0, 0>>
    /\ windows = <<>> /\ ti = 0
    /\ pids_processed = {} /\ resized_count = 0 /\ invocations = <<>>

RunIdle ==
    /\ cmd = "none" /\ pc = "off" /\ info = <<>> /\ menubarOK = None
    /\ applierOK = None /\ stateFile = "absent" /\ saved_mode = None
    /\ switchRet = None /\ ret = None /\ raised = None /\ trace = <<>>
    /\ applied = <<>> /\ curMode = NoDisplayMode /\ modeAtCall = NoDisplayMode
    /\ log = <<>>

Init ==
    /\ cmd = "none" /\ pc = "idle" /\ info = <<>> /\ menubarOK = None
    /\ applierOK = None /\ stateFile \in StateFiles /\ saved_mode = None
    /\ switchRet = None /\ ret = None /\ raised = None /\ trace = <<>>
    /\ applied = <<>> /\ curMode = NoDisplayMode /\ modeAtCall = NoDisplayMode
    /\ log = <<>>
    /\ DispIdle /\ TileIdle

Next ==
    \/ (Invoke /\ UNCHANGED <<dispVars, tileVars>>)
    \/ (HideMenubar /\ UNCHANGED <<dispVars, tileVars>>)
    \/ (ShowMenubar /\ UNCHANGED <<dispVars, tileVars>>)
    \/ (LoadState /\ UNCHANGED <<dispVars, tileVars>>)
    \/ (SetPresentationResolution /\ UNCHANGED <<dispVars, tileVars>>)
    \/ (EnterUnpack /\ UNCHANGED <<dispVars, tileVars>>)
    \/ (ExitCall /\ UNCHANGED <<dispVars, tileVars>>)
    \/ (SetNormalResolution /\ UNCHANGED <<dispVars, tileVars>>)
    \/ (Return /\ UNCHANGED <<dispVars, tileVars>>)
    \/ (Finish /\ UNCHANGED <<dispVars, tileVars>>)

Spec == Init /\ [][Next]_vars


\* ------------------------------------------------------------------------
\* SpecDisplay: get_available_modes(serial) and the selection of
\* find_presentation_mode over bounded listings
\* ------------------------------------------------------------------------
\* Listings of one display with up to MaxLen modes, and of two displays with
\* up to MaxPair modes each, the first display the main one.
DisplayCatalogs ==
    {Section(a, TRUE, sh) : a \in Serials, sh \in SeqsUpTo(Shapes, MaxLen)}
    \cup
    {Section(ab[1], TRUE, sh[1]) \o Section(ab[2], FALSE, sh[2]) :
        ab \in {p \in Serials \X Serials : p[1] # p[2]},
        sh \in SeqsUpTo(PairShapes, MaxPair) \X SeqsUpTo(PairShapes, MaxPair)}

\* The modes parsed in the current state.
ParsedModes == [k \in 1..Len(dmodes) |-> ModeDict(dinfo[dmodes[k]])]

InitDisplay ==
    /\ dpc = "start"
    /\ dinfo \in DisplayCatalogs
    /\ dserial \in Serials
    /\ dtarget \in Targets
    /\ dmodes = <<>>
    /\ dbest = NoIndex
    /\ RunIdle /\ TileIdle

\* modes = get_available_modes(serial); dmodes keeps the lines they came from.
GetAvailableModes ==
    /\ dpc = "start"
    /\ dmodes' = mode_lines(dinfo, dserial)
    /\ dpc' = "parsed"
    /\ UNCHANGED <<dinfo, dserial, dtarget, dbest>>

\* The rest of find_presentation_mode, for the target width dtarget.
FindPresentationMode ==
    /\ dpc = "parsed"
    /\ dbest' = select_presentation_mode(ParsedModes, dtarget)
    /\ dpc' = "selected"
    /\ UNCHANGED <<dinfo, dserial, dtarget, dmodes>>

NextDisplay ==
    \/ (GetAvailableModes /\ UNCHANGED <<runVars, tileVars>>)
    \/ (FindPresentationMode /\ UNCHANGED <<runVars, tileVars>>)

SpecDisplay == InitDisplay /\ [][NextDisplay]_vars

\* ------------------------------------------------------------------------
\* Claims checked under SpecDisplay
\* ------------------------------------------------------------------------
Dist(m) == Abs(m.width - dtarget)

\* C8: the selection returns a scaled mode at the least distance from the
\* target width among the scaled modes, the earliest of those at that
\* distance, and returns none exactly when the sequence has no scaled mode.
C8Theorem ==
    dpc = "selected" =>
        LET M == ParsedModes
        IN  /\ (dbest = NoIndex) <=> (\A j \in 1..Len(M) : ~M[j].scaled)
            /\ dbest # NoIndex =>
                  /\ dbest \in 1..Len(M)
                  /\ M[dbest].scaled
                  /\ \A j \in 1..Len(M) : M[j].scaled => Dist(M[dbest]) <= Dist(M[j])
                  /\ \A j \in 1..(dbest - 1) :
                        M[j].scaled => Dist(M[j]) > Dist(M[dbest])

\* Two scaled modes tie for the least distance and an unscaled mode is
\* closer than both.
C8Witness ==
    /\ dpc = "selected"
    /\ dbest # NoIndex
    /\ LET M == ParsedModes
       IN  /\ \E j \in (dbest + 1)..Len(M) : M[j].scaled /\ Dist(M[j]) = Dist(M[dbest])
           /\ \E j \in 1..Len(M) : ~M[j].scaled /\ Dist(M[j]) < Dist(M[dbest])

\* The lines of the section of the display whose serial is exactly serial:
\* after its serial line, up to the next "Persistent screen id:" line.
SerialLinesOf(text, serial) ==
    {a \in 1..Len(text) : text[a].kind = "serial" /\ text[a].serial = serial}

OwnLines(text, serial) ==
    {i \in 1..Len(text) :
        \E a \in SerialLinesOf(text, serial) :
            /\ a < i
            /\ \A j \in (a + 1)..i : text[j].kind # "persistent"}

TwoDisplays(text) == Cardinality({a \in 1..Len(text) : text[a].kind = "serial"}) = 2

\* C9 (as stated): in a listing of two displays, the modes returned for the
\* serial of one of them all come from that display's own section.
C9Original ==
    (dpc # "start" /\ TwoDisplays(dinfo) /\ SerialLinesOf(dinfo, dserial) # {})
        => \A k \in 1..Len(dmodes) : dmodes[k] \in OwnLines(dinfo, dserial)

\* ------------------------------------------------------------------------
\* windows.py
\* ------------------------------------------------------------------------
PADDING_TOP == 12
PADDING_BOTTOM == 12
PADDING_HORIZONTAL == 12

SKIP_APPS ==
    {"Dock", "Window Server", "WindowManager", "Control Center", "Notification Center",
     "Spotlight", "SystemUIServer", "Finder", "universalAccessAuthWarn",
     "AXVisualSupportAgent", "TextInputMenuAgent", "Raycast"}

\* One entry of the live window list.  has_bounds is FALSE when the entry has
\* no kCGWindowBounds (or an empty one).
Window(id, owner, pid, layer, x, w, h) ==
    [window_id |-> id, app_name |-> owner, pid |-> pid, layer |-> layer,
     has_bounds |-> TRUE, X |-> x, Width |-> w, Height |-> h]

\* The dict appended for a window that passes the filters.
WindowDict(w) ==
    [app_name |-> w.app_name, pid |-> w.pid, window_id |-> w.window_id,
     bounds |-> [X |-> w.X, Width |-> w.Width, Height |-> w.Height]]

\* Faulty variant of Appended (sensitivity of C10): the right edge of the
\* display is included.
AppendedClosed(w, display_x, display_max_x) ==
    IF w.layer # 0 THEN FALSE
    ELSE IF w.app_name \in SKIP_APPS THEN FALSE
    ELSE IF ~w.has_bounds THEN FALSE
    ELSE IF 2 * w.X + w.Width < 2 * display_x \/ 2 * w.X + w.Width > 2 * display_max_x
         THEN FALSE
    ELSE IF w.Width < 100 \/ w.Height < 100 THEN FALSE
    ELSE TRUE

\* The body of the for loop of get_windows_on_display: TRUE when the window
\* is appended.  window_center_x = window_x + window_width / 2 is compared
\* doubled, to stay in the integers.
Appended(w, display_x, display_max_x) ==
    IF w.layer # 0 THEN FALSE
    ELSE IF w.app_name \in SKIP_APPS THEN FALSE
    ELSE IF ~w.has_bounds THEN FALSE
    ELSE IF 2 * w.X + w.Width < 2 * display_x \/ 2 * w.X + w.Width >= 2 * display_max_x
         THEN FALSE
    ELSE IF w.Width < 100 \/ w.Height < 100 THEN FALSE
    ELSE TRUE

RECURSIVE WindowsFrom(_, _, _, _)
WindowsFrom(list, i, display_x, display_max_x) ==
    IF i > Len(list) THEN <<>>
    ELSE IF Appended(list[i], display_x, display_max_x)
         THEN <<WindowDict(list[i])>> \o WindowsFrom(list, i + 1, display_x, display_max_x)
         ELSE WindowsFrom(list, i + 1, display_x, display_max_x)

get_windows_on_display(list, display_x, display_y, display_width, display_height) ==
    LET display_max_x == display_x + display_width
    IN  IF Len(list) = 0 THEN <<>>
        ELSE WindowsFrom(list, 1, display_x, display_max_x)

\* Faulty variant of resize_all_app_windows_ax (sensitivity of C5): only the
\* frontmost window is resized and counted, as resize_window_ax does.
resize_first_window_ax(err, n) == IF err \/ n = 0 THEN 0 ELSE 1

\* resize_all_app_windows_ax(pid, ...): err is whether the AXWindows query
\* failed, n the number of windows it listed; every listed window is counted.
resize_all_app_windows_ax(err, n) == IF err \/ n = 0 THEN 0 ELSE n

\* Faulty variant of TargetGeometry (sensitivity of C11): the horizontal
\* padding is taken off the width once, not on both sides.
TargetGeometryOnePad(b) ==
    [x |-> b[1] + PADDING_HORIZONTAL,
     y |-> b[2] + PADDING_TOP,
     width |-> b[3] - PADDING_HORIZONTAL,
     height |-> b[4] - PADDING_TOP - PADDING_BOTTOM]

\* The target geometry tile_windows_on_display computes from its arguments.
TargetGeometry(b) ==
    [x |-> b[1] + PADDING_HORIZONTAL,
     y |-> b[2] + PADDING_TOP,
     width |-> b[3] - (2 * PADDING_HORIZONTAL),
     height |-> b[4] - PADDING_TOP - PADDING_BOTTOM]

\* ------------------------------------------------------------------------
\* SpecTile: one call of tile_windows_on_display
\* ------------------------------------------------------------------------
WindowPool ==
    { Window(1, "Safari", 101, 0, 200, 800, 600),       \* center 600
      Window(2, "Safari", 101, 0, 100, 1000, 700),      \* center 600
      Window(3, "Terminal", 102, 0, 1327, 801, 100),    \* center 1727.5
      Window(4, "Terminal", 102, 0, 1328, 800, 600),    \* center 1728
      Window(5, "Terminal", 102, 0, 800, 50, 50),       \* center 825, 50x50
      Window(6, "Finder", 103, 0, 200, 800, 600),       \* on the denylist
      Window(7, "Notes", 104, 25, 200, 800, 600),       \* not on layer 0
      Window(8, "Notes", 104, 0, -400, 800, 600) }      \* center 0

\* Both displays end at x = 1728; the first starts at x = 0.
DisplayBounds == {<<0, 0, 1728, 1117>>, <<64, 25, 1664, 1092>>}

\* Window lists: every window at most once.
WindowLists ==
    {l \in SeqsUpTo(WindowPool, MaxWindows) :
        \A i, j \in 1..Len(l) : i # j => l[i] # l[j]}

InitTile ==
    /\ tpc = "start"
    /\ window_list \in WindowLists
    /\ bounds \in DisplayBounds
    /\ windows = <<>>
    /\ ti = 0
    /\ pids_processed = {}
    /\ resized_count = 0
    /\ invocations = <<>>
    /\ RunIdle /\ DispIdle

\* windows = get_windows_on_display(...); pids_processed = set(); resized_count = 0
TileEnumerate ==
    /\ tpc = "start"
    /\ windows' = get_windows_on_display(window_list, bounds[1], bounds[2], bounds[3],
                                          bounds[4])
    /\ ti' = 1
    /\ tpc' = "loop"
    /\ UNCHANGED <<window_list, bounds, pids_processed, resized_count, invocations>>

\* Faulty variant of TileResize (sensitivity of C4): a window is resized
\* whether or not its pid was seen.
TileResizeAlways ==
    /\ tpc = "loop" /\ ti <= Len(windows)
    /\ LET pid == windows[ti].pid IN
        /\ pids_processed' = pids_processed \cup {pid}
        /\ \E err \in BOOLEAN, n \in 0..MaxAx :
            LET count == resize_all_app_windows_ax(err, n) IN
            /\ invocations' = Append(invocations,
                    [pid |-> pid, target |-> TargetGeometry(bounds), err |-> err,
                     listed |-> n, count |-> count])
            /\ resized_count' = IF count > 0 THEN resized_count + count
                                 ELSE resized_count
    /\ ti' = ti + 1
    /\ UNCHANGED <<tpc, window_list, bounds, windows>>

\* One pass of the for loop over a window whose pid was already processed.
TileSkip ==
    /\ tpc = "loop" /\ ti <= Len(windows)
    /\ windows[ti].pid \in pids_processed
    /\ ti' = ti + 1
    /\ UNCHANGED <<tpc, window_list, bounds, windows, pids_processed, resized_count,
                   invocations>>

\* One pass of the for loop over a window of a new pid: the application is
\* asked for its windows (the query fails or lists n of them) and all of them
\* are resized to the target.
TileResize ==
    /\ tpc = "loop" /\ ti <= Len(windows)
    /\ LET pid == windows[ti].pid IN
        /\ pid \notin pids_processed
        /\ pids_processed' = pids_processed \cup {pid}
        /\ \E err \in BOOLEAN, n \in 0..MaxAx :
            LET count == resize_all_app_windows_ax(err, n) IN
            /\ invocations' = Append(invocations,
                    [pid |-> pid, target |-> TargetGeometry(bounds), err |-> err,
                     listed |-> n, count |-> count])
            /\ resized_count' = IF count > 0 THEN resized_count + count
                                 ELSE resized_count
    /\ ti' = ti + 1
    /\ UNCHANGED <<tpc, window_list, bounds, windows>>

\* return resized_count
TileReturn ==
    /\ tpc = "loop" /\ ti > Len(windows)
    /\ tpc' = "done"
    /\ UNCHANGED <<window_list, bounds, windows, ti, pids_processed, resized_count,
                   invocations>>

NextTile ==
    \/ (TileEnumerate /\ UNCHANGED <<runVars, dispVars>>)
    \/ (TileSkip /\ UNCHANGED <<runVars, dispVars>>)
    \/ (TileResize /\ UNCHANGED <<runVars, dispVars>>)
    \/ (TileReturn /\ UNCHANGED <<runVars, dispVars>>)

SpecTile == InitTile /\ [][NextTile]_vars

\* ------------------------------------------------------------------------
\* Claims checked under SpecTile
\* ------------------------------------------------------------------------
EnumeratedPids == {windows[k].pid : k \in 1..Len(windows)}

\* The position in windows of the first window of pid p.
FirstSeen(p) ==
    CHOOSE k \in 1..Len(windows) :
        /\ windows[k].pid = p
        /\ \A j \in 1..(k - 1) : windows[j].pid # p

\* C4: a pass over N enumerated windows of K distinct pids makes exactly K
\* resize invocations, one per pid, in first-seen order, whatever the
\* invocations before reported.
C4Theorem ==
    tpc = "done" =>
        /\ Len(invocations) = Cardinality(EnumeratedPids)
        /\ {invocations[k].pid : k \in 1..Len(invocations)} = EnumeratedPids
        /\ \A i, j \in 1..Len(invocations) :
              i < j => /\ invocations[i].pid # invocations[j].pid
                       /\ FirstSeen(invocations[i].pid) < FirstSeen(invocations[j].pid)

\* Three windows of two pids; the invocation for the pid of the first window
\* failed, and still the other pid got its invocation.
C4Witness ==
    /\ tpc = "done"
    /\ Len(windows) = 3
    /\ Cardinality(EnumeratedPids) = 2
    /\ Len(invocations) = 2
    /\ invocations[1].err
    /\ invocations[1].pid = windows[1].pid

RECURSIVE SumCounts(_)
SumCounts(inv) ==
    IF inv = <<>> THEN 0
    ELSE (IF Head(inv).err \/ Head(inv).listed = 0 THEN 0 ELSE Head(inv).listed)
         + SumCounts(Tail(inv))

\* C5: the count returned is the sum over the distinct pids of the number of
\* windows the pid's application listed, zero for a pid whose query failed or
\* listed none; it is not the number of enumerated windows.
C5Theorem ==
    tpc = "done" =>
        /\ resized_count = SumCounts(invocations)
        /\ \A p \in EnumeratedPids :
              Cardinality({k \in 1..Len(invocations) : invocations[k].pid = p}) = 1

\* One enumerated window per pid, one application's query failed and the
\* other listed two windows: the count is 2 and differs from N in both ways.
C5Witness ==
    /\ tpc = "done"
    /\ Len(windows) = 2
    /\ Len(invocations) = 2
    /\ \E k \in 1..2 : invocations[k].err
    /\ \E k \in 1..2 : ~invocations[k].err /\ invocations[k].listed = 2
    /\ resized_count = 2

\* What C10 says of a window of the live list.
OnDenylist(w) == w.app_name \in SKIP_APPS
CenterInDisplay(w) ==
    /\ 2 * bounds[1] <= 2 * w.X + w.Width
    /\ 2 * w.X + w.Width < 2 * (bounds[1] + bounds[3])
Eligible(w) ==
    /\ w.layer = 0
    /\ ~OnDenylist(w)
    /\ CenterInDisplay(w)
    /\ w.Width >= 100 /\ w.Height >= 100

\* C10: the enumerator returns, in the order of the live list and once each,
\* exactly the windows on layer 0, off the denylist, with the center in
\* [display_x, display_x + display_width) and at least 100 wide and high.
C10Theorem ==
    tpc # "start" =>
        LET kept == SelectSeq(window_list, Eligible)
        IN  /\ Len(windows) = Len(kept)
            /\ \A k \in 1..Len(kept) :
                  /\ windows[k].window_id = kept[k].window_id
                  /\ windows[k] = WindowDict(kept[k])
            /\ \A i, j \in 1..Len(windows) :
                  i # j => windows[i].window_id # windows[j].window_id

\* The list holds a denylisted window that is large and centered, a 50x50
\* window centered on the display and a window whose center is exactly
\* display_x + display_width; none of them is returned.
C10Witness ==
    /\ tpc # "start"
    /\ \E i, j, k \in 1..Len(window_list) :
        /\ OnDenylist(window_list[i]) /\ window_list[i].layer = 0
        /\ CenterInDisplay(window_list[i]) /\ window_list[i].Width >= 100
        /\ window_list[j].Width = 50 /\ window_list[j].Height = 50
        /\ CenterInDisplay(window_list[j]) /\ ~OnDenylist(window_list[j])
        /\ 2 * window_list[k].X + window_list[k].Width = 2 * (bounds[1] + bounds[3])
        /\ window_list[k].layer = 0 /\ ~OnDenylist(window_list[k])
        /\ window_list[k].Width >= 100 /\ window_list[k].Height >= 100
    /\ windows = <<>>

\* C11: every resize invocation of one tiling call is passed the same target,
\* (x + horizontal, y + top, w - 2*horizontal, h - top - bottom) for the bounds
\* (x, y, w, h) of the call; for the bounds (0, 0, 1728, 1117) and the padding
\* 12/12/12 it is (12, 12, 1704, 1093).
C11Theorem ==
    /\ \A k \in 1..Len(invocations) :
          /\ invocations[k].target.x = bounds[1] + PADDING_HORIZONTAL
          /\ invocations[k].target.y = bounds[2] + PADDING_TOP
          /\ invocations[k].target.width
                = bounds[3] - PADDING_HORIZONTAL - PADDING_HORIZONTAL
          /\ invocations[k].target.height = bounds[4] - PADDING_TOP - PADDING_BOTTOM
    /\ \A i, j \in 1..Len(invocations) : invocations[i].target = invocations[j].target
    /\ bounds = <<0, 0, 1728, 1117>> =>
          \A k \in 1..Len(invocations) :
              invocations[k].target = [x |-> 12, y |-> 12, width |-> 1704, height |-> 1093]

\* A call with the bounds (0, 0, 1728, 1117) that has invoked the resize for
\* two applications.
C11Witness ==
    /\ tpc = "done"
    /\ bounds = <<0, 0, 1728, 1117>>
    /\ Len(invocations) = 2
    /\ invocations[1].pid # invocations[2].pid
    /\ invocations[2].target = [x |-> 12, y |-> 12, width |-> 1704, height |-> 1093]

\* ------------------------------------------------------------------------
\* Claims checked under Spec
\* ------------------------------------------------------------------------
Orchestrated == cmd \in {"enter", "exit"}

Occurs(e, t) == \E k \in 1..Len(t) : t[k] = e

\* The steps C2 orders, as they appear in a trace.
OrderedSteps ==
    {"hide_menubar", "show_menubar", "set_mode", "sleep",
     "get_main_display_bounds", "tile_windows_on_display"}

StepsOf(t) == SelectSeq(t, LAMBDA e : e \in OrderedSteps)

ExpectedSteps(c) ==
    <<IF c = "enter" THEN "hide_menubar" ELSE "show_menubar", "set_mode", "sleep",
      "get_main_display_bounds", "tile_windows_on_display">>

\* The mode the resolution step of command c selects in listing text.
SelectedMode(c, text) ==
    LET serial == get_main_display_serial(text)
    IN  IF serial = NoSerial THEN NoMode
        ELSE IF c \in {"enter", "set_presentation_resolution"}
             THEN find_presentation_mode(text, serial)
             ELSE find_mode_for_resolution(text, serial, NORMAL_WIDTH, NORMAL_HEIGHT)

\* C1 (as stated): when the mode-switch step of enter or exit fails, the call
\* returns 1 and neither the bounds query nor the tiler runs.
C1Original ==
    (pc = "done" /\ Orchestrated /\ switchRet = "False")
        => /\ ret = "1"
           /\ raised = None
           /\ ~Occurs("get_main_display_bounds", trace)
           /\ ~Occurs("tile_windows_on_display", trace)

\* C2 (as stated): a run of enter or exit whose mode switch does not fail
\* performs toggle, applier, settle delay, bounds query and tiler in this
\* order, each once, and returns 0.
C2Original ==
    (pc = "done" /\ Orchestrated /\ SelectedMode(cmd, info) # NoMode
        /\ applierOK # "False")
        => /\ ret = "0"
           /\ StepsOf(trace) = ExpectedSteps(cmd)

\* C3 (as stated): two exit calls in sequence with no enter before them and no
\* state file do not crash: each returns 0, or 1 because the mode switch failed.
ExitedCleanly(r) ==
    /\ r.raised = None
    /\ r.ret \in {"0", "1"}
    /\ r.ret = "1" => r.switchRet = "False"

C3Original ==
    (Len(log) = 2 /\ log[1].cmd = "exit" /\ log[2].cmd = "exit"
        /\ log[1].file = "absent" /\ log[2].file = "absent")
        => ExitedCleanly(log[1]) /\ ExitedCleanly(log[2])

\* C6: when no main display serial is detected or the selection yields no
\* mode, the resolution step returns False, set_mode is not invoked and the
\* display mode is the one the step started with.
StepReturned == pc \in {"unpack", "return"}

C6Theorem ==
    (StepReturned /\ SelectedMode(cmd, info) = NoMode)
        => /\ switchRet = "False"
           /\ applied = <<>>
           /\ ~Occurs("set_mode", trace)
           /\ curMode = modeAtCall

C6Witness ==
    /\ StepReturned
    /\ get_main_display_serial(info) # NoSerial
    /\ SelectedMode(cmd, info) = NoMode
    /\ switchRet = "False"

\* C7: two runs of the same command in the same environment that differ only
\* in the outcome of the menu-bar toggle both go on to the mode-switch step
\* and end with the same status after the same steps.
SameButToggle(a, b) ==
    /\ a.cmd \in {"enter", "exit"} /\ a.cmd = b.cmd
    /\ a.info = b.info /\ a.file = b.file
    /\ a.menubarOK = "True" /\ b.menubarOK = "False"
    /\ (a.applierOK = b.applierOK \/ a.applierOK = None \/ b.applierOK = None)

ReachedSwitch(r) ==
    \/ Occurs("set_presentation_resolution", r.trace)
    \/ Occurs("set_normal_resolution", r.trace)

C7Theorem ==
    \A i, j \in 1..Len(log) :
        SameButToggle(log[i], log[j])
            => /\ ReachedSwitch(log[j])
               /\ log[j].ret = log[i].ret
               /\ log[j].raised = log[i].raised
               /\ log[j].switchRet = log[i].switchRet
               /\ Tail(log[j].trace) = Tail(log[i].trace)

C7Witness ==
    \E i, j \in 1..Len(log) :
        /\ SameButToggle(log[i], log[j])
        /\ log[j].applierOK = "True"
        /\ Occurs("set_mode", log[j].trace)

====
